---- MODULE Spec2Model ----
(***************************************************************************)
(* Model of the Box component of este (src/unnamed/part_000): the unit     *)
(* resolver rhythmOrString, the prop-to-style mapper propToStyle /         *)
(* propsToStyle, the border step adjustPaddingForRhythm / borderWithRhythm *)
(* and the style function Box itself.                                      *)
(*                                                                         *)
(* JavaScript values are records [t, n2, s]:                               *)
(*   t  is the value's tag: "number", "NaN", "string", "boolean",          *)
(*      "undefined";                                                       *)
(*   n2 is TWICE the value of a number (so that the rhythm multiples 0.5   *)
(*      and 1.5 the pages use are representable), 1/0 for true/false;      *)
(*   s  is the text of a string.                                           *)
(* A JavaScript object is a function from its keys to values; the props    *)
(* object is a sequence of <<name, value>> pairs, because Object.keys      *)
(* enumerates it in insertion order.                                       *)
(***************************************************************************)
EXTENDS Integers, Sequences, FiniteSets, TLC

VARIABLES theme, props, pc, style, computed, warnings

vars == <<theme, props, pc, style, computed, warnings>>

(* ------------------------------ bounds -------------------------------- *)

\* Largest number of props of a request of the mapper specification.
MaxProps == 2

\* Largest whole rhythm multiple given to a padding prop.
MaxMultiple == 1

\* Largest borderWidth prop.
MaxBorderWidth == 3

(* --------------------------- JavaScript values ------------------------ *)

\* The number k / 2.
Half(k) == [t |-> "number", n2 |-> k, s |-> ""]

\* The whole number k.
Num(k) == Half(2 * k)

NaN == [t |-> "NaN", n2 |-> 0, s |-> ""]

Str(x) == [t |-> "string", n2 |-> 0, s |-> x]

True == [t |-> "boolean", n2 |-> 1, s |-> ""]

False == [t |-> "boolean", n2 |-> 0, s |-> ""]

Undefined == [t |-> "undefined", n2 |-> 0, s |-> ""]

\* typeof v
TypeOf(v) == IF v.t = "NaN" THEN "number" ELSE v.t

\* ToBoolean(v): the test of ||, &&, ! and ?:
Truthy(v) ==
  CASE v.t = "number" -> v.n2 # 0
    [] v.t = "NaN" -> FALSE
    [] v.t = "string" -> v.s # ""
    [] v.t = "boolean" -> v.n2 = 1
    [] OTHER -> FALSE

\* ToNumber(v) of the values the arithmetic below meets (never a string).
ToNumber(v) ==
  CASE v.t = "number" -> v
    [] v.t = "boolean" -> Half(2 * v.n2)
    [] OTHER -> NaN

\* a * b
Times(a, b) ==
  IF ToNumber(a).t = "NaN" \/ ToNumber(b).t = "NaN" THEN NaN
  ELSE Half((ToNumber(a).n2 * ToNumber(b).n2) \div 2)

\* a - b
Minus(a, b) ==
  IF ToNumber(a).t = "NaN" \/ ToNumber(b).t = "NaN" THEN NaN
  ELSE Half(ToNumber(a).n2 - ToNumber(b).n2)

\* a >= 0
GeqZero(a) == a.t = "number" /\ a.n2 >= 0

\* String(v), as a template literal converts v.
ToStr(v) ==
  CASE v.t = "string" -> v.s
    [] v.t = "NaN" -> "NaN"
    [] v.t = "undefined" -> "undefined"
    [] v.t = "boolean" -> IF v.n2 = 1 THEN "true" ELSE "false"
    [] OTHER ->
         LET a == IF v.n2 < 0 THEN 0 - v.n2 ELSE v.n2
             digits == ToString(a \div 2) \o (IF a % 2 = 1 THEN ".5" ELSE "")
         IN  IF v.n2 < 0 THEN "-" \o digits ELSE digits

\* obj[key]
Get(obj, key) == IF key \in DOMAIN obj THEN obj[key] ELSE Undefined

\* { ...a, ...b }
Spread(a, b) ==
  [k \in (DOMAIN a) \cup (DOMAIN b) |-> IF k \in DOMAIN b THEN b[k] ELSE a[k]]

\* {}
Empty == [k \in {} |-> Undefined]

\* { [k]: v }
Single(k, v) == [x \in {k} |-> v]

\* null, told apart from every style object by its key.
Null == [null |-> Undefined]

\* Object.keys(props)
Keys(p) == [i \in 1..Len(p) |-> p[i][1]]

KeySet(p) == {p[i][1] : i \in 1..Len(p)}

\* props[name]
Prop(p, name) ==
  IF name \in KeySet(p)
  THEN p[CHOOSE i \in 1..Len(p) : p[i][1] = name][2]
  ELSE Undefined

(* ------------------------------ the mapper ---------------------------- *)

rhythmOrString(th, value) ==
  IF TypeOf(value) = "number"
  THEN Times(th.typography.lineHeight, value)
  ELSE IF Truthy(value) THEN value ELSE Num(0)

directionMapping ==
  [marginHorizontal |-> <<"marginLeft", "marginRight">>,
   marginVertical |-> <<"marginTop", "marginBottom">>,
   paddingHorizontal |-> <<"paddingLeft", "paddingRight">>,
   paddingVertical |-> <<"paddingTop", "paddingBottom">>]

PlainProps ==
  {"display", "flex", "flexDirection", "flexFlow", "flexGrow", "flexWrap",
   "alignItems", "alignContent", "justifyContent", "order", "flexShrink",
   "flexBasis", "alignSelf"}

SimpleProps ==
  {"marginBottom", "marginLeft", "marginRight", "marginTop",
   "paddingBottom", "paddingLeft", "paddingRight", "paddingTop",
   "width", "height", "maxWidth", "maxHeight", "minWidth", "minHeight"}

propToStyle(prop, value, th) ==
  CASE prop \in PlainProps -> Single(prop, value)
    [] prop \in SimpleProps -> Single(prop, rhythmOrString(th, value))
    [] prop \in DOMAIN directionMapping ->
         LET d1 == directionMapping[prop][1]
             d2 == directionMapping[prop][2]
         IN  Spread(Single(d1, rhythmOrString(th, value)),
                    Single(d2, rhythmOrString(th, value)))
    [] prop = "margin" ->
         [k \in {"marginBottom", "marginLeft", "marginRight", "marginTop"}
            |-> rhythmOrString(th, value)]
    [] prop = "padding" ->
         [k \in {"paddingBottom", "paddingLeft", "paddingRight", "paddingTop"}
            |-> rhythmOrString(th, value)]
    [] prop = "backgroundColor" ->
         Single("backgroundColor", Get(th.colors, ToStr(value)))
    [] prop = "borderRadius" ->
         Single("borderRadius",
                IF Truthy(value) THEN value ELSE th.border.radius)
    [] OTHER -> Null

\* The reducer of propsToStyle: one step of the reduce over Object.keys.
propsReducer(th, p, st, prop) ==
  IF prop = "theme" THEN st
  ELSE LET propStyle == propToStyle(prop, Prop(p, prop), th)
       IN  IF propStyle = Null THEN st ELSE Spread(st, propStyle)

RECURSIVE reduceProps(_, _, _)
reduceProps(th, p, i) ==
  IF i = 0 THEN Empty
  ELSE propsReducer(th, p, reduceProps(th, p, i - 1), Keys(p)[i])

propsToStyle(th, p) == reduceProps(th, p, Len(p))

(* --------------------------- the border step -------------------------- *)

\* The padding edges in the order adjustPaddingForRhythm reduces them.
Edges == <<"Bottom", "Left", "Right", "Top">>

\* prop.toLowerCase() of an edge name.
toLowerCase(x) ==
  CASE x = "Bottom" -> "bottom"
    [] x = "Left" -> "left"
    [] x = "Right" -> "right"
    [] x = "Top" -> "top"
    [] OTHER -> x

\* x.charAt(0).toUpperCase() + x.slice(1) of a side name.
capitalize(x) ==
  CASE x = "bottom" -> "Bottom"
    [] x = "left" -> "Left"
    [] x = "right" -> "Right"
    [] x = "top" -> "Top"
    [] OTHER -> x

\* The message handed to warning(false, ...).
rhythmWarning(paddingProp, direction) ==
  "Increase " \o paddingProp \o " to ensure " \o direction \o " rhythm. "
    \o "Use suppressRhythmWarning prop to suppress this warning."

\* adjustReducer that never looks at suppressRhythmWarning.
adjustReducer_WarnsWhenSuppressed(suppressRhythmWarning, border, borderWidth, st, acc, prop) ==
  LET adjust == border = True \/ border = Str(toLowerCase(prop))
      paddingProp == "padding" \o prop
      paddingValue == Get(st, paddingProp)
      canCompensate ==
        Truthy(paddingValue) /\ GeqZero(Minus(paddingValue, borderWidth))
      direction ==
        IF prop = "Left" \/ prop = "Right" THEN "horizontal" ELSE "vertical"
  IN  IF ~adjust THEN acc
      ELSE IF TypeOf(paddingValue) = "string"
      THEN [acc EXCEPT
              !.padding = Spread(acc.padding, Single(paddingProp, paddingValue))]
      ELSE [padding |->
              Spread(Spread(IF canCompensate THEN Empty
                            ELSE Single("outline", Str("solid 1px red")),
                            acc.padding),
                     Single(paddingProp, Minus(paddingValue, borderWidth))),
            warned |->
              IF canCompensate THEN acc.warned
              ELSE Append(acc.warned, rhythmWarning(paddingProp, direction))]

\* adjustReducer that returns the accumulator, not {}, on a suppressed failure.
adjustReducer_KeepsOnSuppress(suppressRhythmWarning, border, borderWidth, st, acc, prop) ==
  LET adjust == border = True \/ border = Str(toLowerCase(prop))
      paddingProp == "padding" \o prop
      paddingValue == Get(st, paddingProp)
      canCompensate ==
        Truthy(paddingValue) /\ GeqZero(Minus(paddingValue, borderWidth))
      direction ==
        IF prop = "Left" \/ prop = "Right" THEN "horizontal" ELSE "vertical"
  IN  IF ~adjust THEN acc
      ELSE IF TypeOf(paddingValue) = "string"
      THEN [acc EXCEPT
              !.padding = Spread(acc.padding, Single(paddingProp, paddingValue))]
      ELSE IF ~canCompensate /\ Truthy(suppressRhythmWarning)
      THEN acc
      ELSE [padding |->
              Spread(Spread(IF canCompensate THEN Empty
                            ELSE Single("outline", Str("solid 1px red")),
                            acc.padding),
                     Single(paddingProp, Minus(paddingValue, borderWidth))),
            warned |->
              IF canCompensate THEN acc.warned
              ELSE Append(acc.warned, rhythmWarning(paddingProp, direction))]

\* adjustReducer that leaves the outline out of a failed edge.
adjustReducer_NoOutline(suppressRhythmWarning, border, borderWidth, st, acc, prop) ==
  LET adjust == border = True \/ border = Str(toLowerCase(prop))
      paddingProp == "padding" \o prop
      paddingValue == Get(st, paddingProp)
      canCompensate ==
        Truthy(paddingValue) /\ GeqZero(Minus(paddingValue, borderWidth))
      direction ==
        IF prop = "Left" \/ prop = "Right" THEN "horizontal" ELSE "vertical"
  IN  IF ~adjust THEN acc
      ELSE IF TypeOf(paddingValue) = "string"
      THEN [acc EXCEPT
              !.padding = Spread(acc.padding, Single(paddingProp, paddingValue))]
      ELSE IF ~canCompensate /\ Truthy(suppressRhythmWarning)
      THEN [acc EXCEPT !.padding = Empty]
      ELSE [padding |->
              Spread(Spread(Empty,
                            acc.padding),
                     Single(paddingProp, Minus(paddingValue, borderWidth))),
            warned |->
              IF canCompensate THEN acc.warned
              ELSE Append(acc.warned, rhythmWarning(paddingProp, direction))]

\* The reducer of adjustPaddingForRhythm.  acc.padding is the accumulator of
\* the reduce, acc.warned the messages warning() was called with so far.
adjustReducer(suppressRhythmWarning, border, borderWidth, st, acc, prop) ==
  LET adjust == border = True \/ border = Str(toLowerCase(prop))
      paddingProp == "padding" \o prop
      paddingValue == Get(st, paddingProp)
      canCompensate ==
        Truthy(paddingValue) /\ GeqZero(Minus(paddingValue, borderWidth))
      direction ==
        IF prop = "Left" \/ prop = "Right" THEN "horizontal" ELSE "vertical"
  IN  IF ~adjust THEN acc
      ELSE IF TypeOf(paddingValue) = "string"
      THEN [acc EXCEPT
              !.padding = Spread(acc.padding, Single(paddingProp, paddingValue))]
      ELSE IF ~canCompensate /\ Truthy(suppressRhythmWarning)
      THEN [acc EXCEPT !.padding = Empty]
      ELSE [padding |->
              Spread(Spread(IF canCompensate THEN Empty
                            ELSE Single("outline", Str("solid 1px red")),
                            acc.padding),
                     Single(paddingProp, Minus(paddingValue, borderWidth))),
            warned |->
              IF canCompensate THEN acc.warned
              ELSE Append(acc.warned, rhythmWarning(paddingProp, direction))]

RECURSIVE reduceEdges(_, _, _, _, _)
reduceEdges(suppressRhythmWarning, border, borderWidth, st, i) ==
  IF i = 0 THEN [padding |-> Empty, warned |-> <<>>]
  ELSE adjustReducer(suppressRhythmWarning, border, borderWidth, st,
         reduceEdges(suppressRhythmWarning, border, borderWidth, st, i - 1),
         Edges[i])

adjustPaddingForRhythm(suppressRhythmWarning, border, borderWidth, st) ==
  IF ~Truthy(borderWidth) THEN [padding |-> Empty, warned |-> <<>>]
  ELSE reduceEdges(suppressRhythmWarning, border, borderWidth, st, Len(Edges))

\* const borderWidth = props.borderWidth || theme.border.width
borderWidthOf(th, p) ==
  IF Truthy(Prop(p, "borderWidth")) THEN Prop(p, "borderWidth")
  ELSE th.border.width

\* const borderColor = props.borderColor ? theme.colors[...] : theme.colors.gray
borderColorOf(th, p) ==
  IF Truthy(Prop(p, "borderColor"))
  THEN Get(th.colors, ToStr(Prop(p, "borderColor")))
  ELSE Get(th.colors, "gray")

\* const borderProp = props.border === true ? 'border' : `border${...}`
borderPropOf(p) ==
  IF Prop(p, "border") = True THEN "border"
  ELSE "border" \o capitalize(ToStr(Prop(p, "border")))

\* borderWithRhythm that compensates for theme.border.width whatever the
\* borderWidth prop is.
borderWithRhythm_ThemeWidth(th, p, st) ==
  IF ~Truthy(Prop(p, "border")) THEN [style |-> st, warned |-> <<>>]
  ELSE LET padding == adjustPaddingForRhythm(
                        Prop(p, "suppressRhythmWarning"), Prop(p, "border"),
                        th.border.width, st)
       IN  [style |->
              Spread(padding.padding,
                     Single(borderPropOf(p),
                            Str("solid " \o ToStr(borderWidthOf(th, p))
                                  \o "px " \o ToStr(borderColorOf(th, p))))),
            warned |-> padding.warned]

\* The result is [style, warned]: the object returned and the warnings made.
borderWithRhythm(th, p, st) ==
  IF ~Truthy(Prop(p, "border")) THEN [style |-> st, warned |-> <<>>]
  ELSE LET padding == adjustPaddingForRhythm(
                        Prop(p, "suppressRhythmWarning"), Prop(p, "border"),
                        borderWidthOf(th, p), st)
       IN  [style |->
              Spread(padding.padding,
                     Single(borderPropOf(p),
                            Str("solid " \o ToStr(borderWidthOf(th, p))
                                  \o "px " \o ToStr(borderColorOf(th, p))))),
            warned |-> padding.warned]

\* Box that returns the border step's result without spreading the mapper's
\* style under it.
Box_OverlayOnly(th, p) ==
  LET st == propsToStyle(th, p)
      bordered == borderWithRhythm(th, p, st)
  IN  [mapped |-> st, style |-> bordered.style, warned |-> bordered.warned]

\* The result is [mapped, style, warned]: the const style of the function, the
\* object it returns and the warnings made.
Box(th, p) ==
  LET st == propsToStyle(th, p)
      bordered == borderWithRhythm(th, p, st)
  IN  [mapped |-> st,
       style |-> Spread(st, bordered.style),
       warned |-> bordered.warned]

(* ------------------------------ the themes ---------------------------- *)

\* theme.colors of the themes checked: 'transparent' is not one of its keys.
Colors == [gray |-> Str("#cccccc"), primary |-> Str("#0088ee")]

\* The theme of line height h and border width w.
Theme(h, w) ==
  [typography |-> [lineHeight |-> Num(h)],
   colors |-> Colors,
   border |-> [width |-> Num(w), radius |-> Num(2)]]

Themes == {Theme(20, 1), Theme(2, 0)}

(* ------------------------------ the requests -------------------------- *)

\* The values a spacing prop (type RhythmOrString, or left out) is given.
SpacingValues == {False, Undefined, Str(""), Half(1), Num(1), Str("10%")}

MapperSpacing ==
  {"margin", "marginHorizontal", "marginVertical", "marginLeft", "marginTop",
   "padding", "paddingVertical", "paddingTop", "width", "maxHeight"}

\* The <<name, value>> pairs of the requests of the mapper specification.
MapperInputs ==
  (MapperSpacing \X SpacingValues)
    \cup ({"backgroundColor"} \X {Str("primary"), Str("transparent"), Str("nocolor")})
    \cup ({"borderRadius"} \X {Num(0), Num(3)})
    \cup ({"border"} \X {True, Str("left")})
    \cup ({"borderWidth"} \X {Num(0), Num(2)})
    \cup ({"borderColor"} \X {Str("primary")})
    \cup ({"display"} \X {Str("block")})
    \cup ({"theme"} \X {Str("[theme]")})
    \cup ({"className"} \X {Str("box")})

\* The values a padding edge is given in the requests with a border.
PaddingValues == {False, Str("10%")} \cup {Num(k) : k \in 1..MaxMultiple}

\* The props of the requests of the border specification, in the order the
\* requests list them.
BorderOrder ==
  <<"border", "borderWidth", "suppressRhythmWarning",
    "paddingBottom", "paddingLeft", "paddingRight", "paddingTop", "marginTop">>

Rank(name) == CHOOSE i \in 1..Len(BorderOrder) : BorderOrder[i] = name

BorderValues(name) ==
  CASE name = "border" ->
         {True, Str("top"), Str("bottom"), Str("left"), Str("right")}
    [] name = "borderWidth" -> {Num(k) : k \in 0..MaxBorderWidth}
    [] name = "suppressRhythmWarning" -> {True, False}
    [] name = "marginTop" -> {Num(1)}
    [] OTHER -> PaddingValues

(* ------------------------------ the machine --------------------------- *)

Init ==
  /\ theme \in Themes
  /\ props = <<>>
  /\ pc = "props"
  /\ style = Empty
  /\ computed = Empty
  /\ warnings = <<>>

\* The caller writes one more prop into the props object.
SetProp(name, value) ==
  /\ pc = "props"
  /\ name \notin KeySet(props)
  /\ props' = Append(props, <<name, value>>)
  /\ UNCHANGED <<theme, pc, style, computed, warnings>>

\* A prop of the mapper's table, in any enumeration order.
SetMapperProp ==
  \E input \in MapperInputs :
    /\ Len(props) < MaxProps
    /\ SetProp(input[1], input[2])

\* A prop of a request with a border.
SetBorderProp ==
  \E i \in 1..Len(BorderOrder) :
    \E value \in BorderValues(BorderOrder[i]) :
      /\ \A j \in 1..Len(props) : Rank(props[j][1]) < i
      /\ SetProp(BorderOrder[i], value)

\* styled() calls the style function Box with the theme and the props.
Render ==
  /\ pc = "props"
  /\ pc' = "rendered"
  /\ LET box == Box(theme, props)
     IN  style' = box.mapped /\ computed' = box.style /\ warnings' = box.warned
  /\ UNCHANGED <<theme, props>>

Next == SetMapperProp \/ Render

Spec == Init /\ [][Next]_vars

NextBorder == SetBorderProp \/ Render

SpecBorder == Init /\ [][NextBorder]_vars

TypeOK ==
  /\ theme \in Themes
  /\ pc \in {"props", "rendered"}

(* ------------------------- vocabulary of the claims ------------------- *)

Rendered == pc = "rendered"

\* The mapper's output for the request, once Box has run.
Mapped == style

LineHeight == theme.typography.lineHeight

\* The stroke width the border step works with.
Width == borderWidthOf(theme, props)

HasBorder == Truthy(Prop(props, "border"))

Suppressed == Truthy(Prop(props, "suppressRhythmWarning"))

EdgeIx == 1..Len(Edges)

PaddingOf(i) == "padding" \o Edges[i]

\* Edge i is one the border of the request lies on.
Affected(i) ==
  \/ Prop(props, "border") = True
  \/ Prop(props, "border") = Str(toLowerCase(Edges[i]))

\* The mapper's padding of edge i is a number that absorbs the stroke.
Absorbs(i) ==
  /\ Get(Mapped, PaddingOf(i)).t = "number"
  /\ Get(Mapped, PaddingOf(i)).n2 - Width.n2 >= 0

\* The mapper's padding of edge i is a number too small for the stroke.
TooSmall(i) ==
  /\ Get(Mapped, PaddingOf(i)).t = "number"
  /\ Get(Mapped, PaddingOf(i)).n2 - Width.n2 < 0

\* Edge i is affected and the border step cannot compensate its padding:
\* the padding is no string and is missing, zero or less than the stroke.
Fails(i) ==
  /\ Affected(i)
  /\ Width.n2 # 0
  /\ Get(Mapped, PaddingOf(i)).t # "string"
  /\ ~(Absorbs(i) /\ Get(Mapped, PaddingOf(i)).n2 # 0)

\* The warning of edge i was emitted.
Warned(i) ==
  \E w \in 1..Len(warnings) :
    warnings[w] = rhythmWarning(PaddingOf(i),
                    IF Edges[i] \in {"Left", "Right"} THEN "horizontal"
                    ELSE "vertical")

\* v is a whole multiple of the theme's line height.
IsMultiple(v) == v.t = "number" /\ v.n2 % LineHeight.n2 = 0

\* a + b
Plus(a, b) == Minus(a, Minus(Num(0), b))

\* Key k has the same presence and value in the final style and in the
\* mapper's output.
SameAsMapped(k) ==
  /\ (k \in DOMAIN computed) = (k \in DOMAIN Mapped)
  /\ Get(computed, k) = Get(Mapped, k)

(* -------------------------------- C1 ---------------------------------- *)

\* The shorthands that write the output key of a per-edge prop.
ShorthandsOf(edgeProp) ==
  CASE edgeProp = "marginLeft" -> {"margin", "marginHorizontal"}
    [] edgeProp = "marginRight" -> {"margin", "marginHorizontal"}
    [] edgeProp = "marginTop" -> {"margin", "marginVertical"}
    [] edgeProp = "marginBottom" -> {"margin", "marginVertical"}
    [] edgeProp = "paddingLeft" -> {"padding", "paddingHorizontal"}
    [] edgeProp = "paddingRight" -> {"padding", "paddingHorizontal"}
    [] edgeProp = "paddingTop" -> {"padding", "paddingVertical"}
    [] edgeProp = "paddingBottom" -> {"padding", "paddingVertical"}
    [] OTHER -> {}

EdgeProps ==
  {"marginLeft", "marginRight", "marginTop", "marginBottom",
   "paddingLeft", "paddingRight", "paddingTop", "paddingBottom"}

\* C1: in every enumeration order of the props, when a per-edge prop and a
\* shorthand writing the same output key are both in the request, the output
\* key of the mapper's output holds the resolved value of the per-edge prop.
C1_SpecificOverridesGeneral ==
  Rendered =>
    \A e \in EdgeProps \cap KeySet(props) :
      ShorthandsOf(e) \cap KeySet(props) # {} =>
        Get(Mapped, e) = rhythmOrString(theme, Prop(props, e))

(* -------------------------------- C7 ---------------------------------- *)

\* The unit resolver as section 4.1 states it.
Resolved(v) ==
  CASE v.t = "number" -> Half((LineHeight.n2 * v.n2) \div 2)
    [] v.t = "string" /\ v.s # "" -> v
    [] OTHER -> Num(0)

\* C7: rhythmOrString is total, h * v for a number, v for a non-empty string
\* and 0 for false, undefined and the empty string; and every direct spacing
\* prop of a request without border is in the output with that value.
C7_DirectPropsResolved ==
  Rendered /\ ~HasBorder =>
    /\ \A v \in SpacingValues : rhythmOrString(theme, v) = Resolved(v)
    /\ \A i \in 1..Len(props) :
         props[i][1] \in SimpleProps =>
           /\ props[i][1] \in DOMAIN computed
           /\ computed[props[i][1]] = Resolved(props[i][2])

(* -------------------------------- C8 ---------------------------------- *)

\* C8: a backgroundColor that is a key of theme.colors yields that colour,
\* and 'transparent' yields 'transparent' although it is no key.
C8_BackgroundColor ==
  Rendered /\ "backgroundColor" \in KeySet(props) =>
    LET value == Prop(props, "backgroundColor")
    IN  /\ value.s \in DOMAIN theme.colors =>
             Get(computed, "backgroundColor") = theme.colors[value.s]
        /\ value = Str("transparent") =>
             Get(computed, "backgroundColor") = Str("transparent")

(* -------------------------------- C2 ---------------------------------- *)

VerticalKeys == {"marginTop", "marginBottom", "paddingTop", "paddingBottom"}

SpacingNames ==
  SimpleProps \cup DOMAIN directionMapping \cup {"margin", "padding"}

\* Every spacing value of the request is a whole rhythm multiple or false.
WholeMultiples ==
  \A i \in 1..Len(props) :
    props[i][1] \in SpacingNames =>
      \/ props[i][2] = False
      \/ props[i][2].t = "number" /\ props[i][2].n2 % 2 = 0

\* Key k is the padding of a vertical edge the border lies on.
BorderedPadding(k) ==
  \E i \in EdgeIx : k = PaddingOf(i) /\ Affected(i) /\ HasBorder

\* C2 as stated: every vertical spacing property of the final style is a
\* whole multiple of the line height, unless the style has an outline.
C2_RhythmOfEveryValue ==
  Rendered /\ WholeMultiples =>
    \A k \in VerticalKeys \cap DOMAIN computed :
      IsMultiple(computed[k]) \/ "outline" \in DOMAIN computed

\* C2, amended: every vertical spacing property of the final style is a
\* whole multiple of the line height, or it is the padding of a bordered edge
\* and a whole multiple less the border width, or the style has an outline.
C2_RhythmWithBorder ==
  Rendered /\ WholeMultiples =>
    \A k \in VerticalKeys \cap DOMAIN computed :
      \/ IsMultiple(computed[k])
      \/ BorderedPadding(k) /\ IsMultiple(Plus(computed[k], Width))
      \/ BorderedPadding(k) /\ "outline" \in DOMAIN computed

W2_CompensatedOffRhythm ==
  /\ Rendered /\ WholeMultiples /\ HasBorder
  /\ "marginTop" \in DOMAIN computed
  /\ "paddingTop" \in DOMAIN computed
  /\ ~IsMultiple(computed["paddingTop"])
  /\ IsMultiple(Plus(computed["paddingTop"], Width))
  /\ "paddingBottom" \in DOMAIN computed
  /\ computed["paddingBottom"] = NaN
  /\ "outline" \in DOMAIN computed

(* -------------------------------- C3 ---------------------------------- *)

\* C3 as stated: every affected edge whose padding absorbs the stroke has its
\* padding reduced by the border width, whatever the other edges and
\* suppressRhythmWarning are.
C3_CompensationAlways ==
  Rendered /\ HasBorder =>
    \A i \in EdgeIx :
      Affected(i) /\ Absorbs(i) =>
        Get(computed, PaddingOf(i)) = Minus(Get(Mapped, PaddingOf(i)), Width)

\* C3, amended: every affected edge whose padding absorbs the stroke has its
\* padding reduced by the border width, unless suppressRhythmWarning is set
\* and that edge or one reduced after it (in the order Bottom, Left, Right,
\* Top) cannot be compensated.
C3_CompensationUnlessDropped ==
  Rendered /\ HasBorder =>
    \A i \in EdgeIx :
      /\ Affected(i) /\ Absorbs(i)
      /\ ~(Suppressed /\ \E j \in EdgeIx : j >= i /\ Fails(j))
      => Get(computed, PaddingOf(i)) = Minus(Get(Mapped, PaddingOf(i)), Width)

W3_CompensatedAfterSuppressedFailure ==
  /\ Rendered /\ HasBorder /\ Suppressed /\ Width.n2 # 0
  /\ Fails(1)
  /\ Affected(4) /\ Absorbs(4) /\ Get(Mapped, "paddingTop").n2 # 0
  /\ Get(computed, "paddingTop") = Minus(Get(Mapped, "paddingTop"), Width)

(* -------------------------------- C4 ---------------------------------- *)

\* C4: without suppressRhythmWarning, every affected edge whose padding is
\* too small for the stroke is warned about, the final style has the red
\* outline, and the padding of the edge stays at its resolved value.
C4_FailureKeepsPadding ==
  Rendered /\ HasBorder /\ ~Suppressed =>
    \A i \in EdgeIx :
      Affected(i) /\ TooSmall(i) =>
        /\ Warned(i)
        /\ Get(computed, "outline") = Str("solid 1px red")
        /\ Get(computed, PaddingOf(i)) = Get(Mapped, PaddingOf(i))

(* -------------------------------- C5 ---------------------------------- *)

\* C5: with suppressRhythmWarning set, no warning is emitted and the final
\* style has no outline key.
C5_SuppressedIsSilent ==
  Rendered /\ Suppressed =>
    /\ warnings = <<>>
    /\ "outline" \notin DOMAIN computed

W5_SuppressedFailure ==
  /\ Rendered /\ Suppressed /\ HasBorder
  /\ \E i \in EdgeIx : Fails(i) /\ TooSmall(i)

(* -------------------------------- C6 ---------------------------------- *)

\* C6: with a border, the final style has the border key with the value
\* "solid <W>px <C>", W being the borderWidth prop when it is given (0
\* included) and theme.border.width otherwise, C the theme colour of the
\* borderColor prop when it is given and theme.colors.gray otherwise.
C6_BorderEntry ==
  Rendered /\ HasBorder =>
    LET key == IF Prop(props, "border") = True THEN "border"
               ELSE "border" \o capitalize(Prop(props, "border").s)
        W == IF "borderWidth" \in KeySet(props) THEN Prop(props, "borderWidth")
             ELSE theme.border.width
        C == IF "borderColor" \in KeySet(props)
             THEN Get(theme.colors, Prop(props, "borderColor").s)
             ELSE theme.colors.gray
    IN  Get(computed, key) = Str("solid " \o ToStr(W) \o "px " \o ToStr(C))

(* -------------------------------- C9 ---------------------------------- *)

\* C9 as stated: with a border, suppressRhythmWarning set and an affected
\* edge that cannot be compensated, the padding of all four edges is the
\* mapper's.
C9_SuppressionDropsAll ==
  Rendered /\ HasBorder /\ Suppressed /\ (\E j \in EdgeIx : Fails(j)) =>
    \A i \in EdgeIx : SameAsMapped(PaddingOf(i))

\* C9, amended: with a border, suppressRhythmWarning set and an affected
\* edge that cannot be compensated, the padding of that edge and of every
\* edge reduced before it (in the order Bottom, Left, Right, Top) is the
\* mapper's.
C9_SuppressionDropsSoFar ==
  Rendered /\ HasBorder /\ Suppressed =>
    \A i \in EdgeIx :
      (\E j \in EdgeIx : j >= i /\ Fails(j)) => SameAsMapped(PaddingOf(i))

W9_DroppedBeforeKeptAfter ==
  /\ Rendered /\ HasBorder /\ Suppressed
  /\ Affected(1) /\ Absorbs(1) /\ Get(Mapped, PaddingOf(1)).n2 > Width.n2
  /\ Fails(2)
  /\ ~Fails(3) /\ ~Fails(4)
  /\ SameAsMapped(PaddingOf(1))
  /\ Get(computed, PaddingOf(4)) = Minus(Get(Mapped, PaddingOf(4)), Width)
  /\ ~SameAsMapped(PaddingOf(4))

(* -------------------------------- C10 --------------------------------- *)

\* The keys the border step may write for the request.
BorderStepKeys ==
  IF HasBorder
  THEN {borderPropOf(props), "outline"}
         \cup {PaddingOf(i) : i \in {j \in EdgeIx : Affected(j)}}
  ELSE {}

\* C10: the final style differs from the mapper's output only in the border
\* key, the outline key and the padding of the affected edges; an affected
\* edge with a string padding keeps the string and is not warned about; and
\* without a border the final style is the mapper's output.
C10_BorderStepFrame ==
  Rendered =>
    /\ \A k \in (DOMAIN computed \cup DOMAIN Mapped) \ BorderStepKeys :
         SameAsMapped(k)
    /\ \A i \in EdgeIx :
         HasBorder /\ Affected(i) /\ Get(Mapped, PaddingOf(i)).t = "string" =>
           /\ Get(computed, PaddingOf(i)) = Get(Mapped, PaddingOf(i))
           /\ ~Warned(i)
    /\ ~HasBorder => computed = Mapped /\ warnings = <<>>

W10_SideBorderStringPadding ==
  /\ Rendered
  /\ Prop(props, "border") = Str("top")
  /\ Get(Mapped, "paddingTop").t = "string"
  /\ Get(computed, "paddingTop") = Get(Mapped, "paddingTop")
  /\ Get(Mapped, "paddingLeft").t = "number"
  /\ Get(computed, "paddingLeft") = Get(Mapped, "paddingLeft")
  /\ "marginTop" \in DOMAIN computed
  /\ "borderTop" \in DOMAIN computed

====
